---- MODULE Spec2Model ----
(***************************************************************************)
(* NBApredict: the prediction/settlement pipeline (predict/bets.py) and    *)
(* the odds scraper (scrapers/line_scraper.py).                            *)
(*                                                                         *)
(* Numbers.  Scores are whole points.  Lines and predictions are floats    *)
(* in the program; here they are counted in half points (line -4.5 is -9), *)
(* and a score margin is doubled before it is compared with them, so that  *)
(* every comparison of update_bet_results is the program's comparison.     *)
(* A nullable column holds None == <<>> or Some(v) == <<v>>.               *)
(***************************************************************************)
EXTENDS Integers, Sequences, FiniteSets, TLC

VARIABLES
    sched,            \* the schedule table: a set of schedule records
    odds,             \* the odds table as committed: a sequence of odds records
    predictions,      \* the predictions table: a sequence of prediction records (row id = index)
    staged,           \* prediction objects added to the session and not yet committed
    bet_update_objs,  \* the row ids the latest update_prediction_table handed to update_bet_results
    odds_deleted,     \* the stored odds rows the latest update_odds_table deleted in its session
    odds_new,         \* odds objects added to the session and not yet committed
    odds_rows,        \* the batch last handed to update_odds_table
    feed_regular,     \* the JSON the regular-season URL answers with
    feed_playoff,     \* the JSON the playoff URL answers with
    clock,            \* what datetime.now() answers inside odds_for_today's loop, per game
    requested,        \* the URLs odds_for_today has requested, in order
    competitors,      \* the competitors object handed to parse_teams alone
    args,             \* the arguments of another function called alone
    result,           \* what the scraper function called last returned or raised
    pc,               \* where the current run stands
    error             \* the exception that ended the current run, "" when none

vars == <<sched, odds, predictions, staged, bet_update_objs, odds_deleted, odds_new, odds_rows,
          feed_regular, feed_playoff, clock, requested, competitors, args, result, pc, error>>

\* What belongs to the scraper's session alone, and to the predictions alone.
odds_session == <<odds_deleted, odds_new, odds_rows>>
pred_session == <<predictions, staged, bet_update_objs>>
scraper == <<feed_regular, feed_playoff, clock, requested, competitors, args, result>>

----------------------------------------------------------------------------
(* Bounds *)

NumGames == 1       \* game identities known to the schedule
MaxBatch == 2       \* rows in one batch handed to insert_new_predictions
MaxScore == 1       \* the largest score of a row handed to update_bet_results alone
MaxLine == 3        \* |line| and |prediction| - 1, in half points, of a graded row
MaxCompetitors == 3 \* entries of a competitors object
MaxEvents == 2      \* events in the answer of one URL
MaxOutcomes == 3    \* outcome entries of a market object handed to a parser alone
MaxNameLen == 3     \* letters of a string handed to get_team_name

----------------------------------------------------------------------------
(* Values *)

None == <<>>
Some(v) == <<v>>

\* The Game Identity (home_team, away_team, start_time) of the i-th scheduled game.
Game(i) == IF i % 2 = 1 THEN <<"LAKERS", "CELTICS", i>> ELSE <<"CELTICS", "LAKERS", i>>

GameIds == {Game(i) : i \in 1..NumGames}

\* What a score column of the schedule holds: NULL, 0, or a score.
ScoreVals == {None, Some(0), Some(1)}

\* The lines and predictions of the rows predict_all hands to insert_new_predictions.
RowLines == {-2}
RowPredictions == {1, 3}

Identity(r) == <<r.home_team, r.away_team, r.start_time>>

HasDuplicate(seq) ==
    \E i, j \in DOMAIN seq : i < j /\ Identity(seq[i]) = Identity(seq[j])

\* A column that is NULL never satisfies a SQL comparison.
IsZero(col) == col # None /\ col[1] = 0
IsPositive(col) == col # None /\ col[1] > 0

\* Nothing has been scraped.
NoScrape ==
    /\ feed_regular = <<>>
    /\ feed_playoff = <<>>
    /\ clock = <<>>
    /\ requested = <<>>
    /\ competitors = <<>>
    /\ args = <<>>
    /\ result = [kind |-> "none", teams |-> <<>>, lines |-> <<>>, error |-> ""]

----------------------------------------------------------------------------
(* The tables predict_all works on *)

ScheduleRecord(i, g, hs, as) ==
    [id |-> i, home_team |-> g[1], away_team |-> g[2], start_time |-> g[3],
     home_team_score |-> hs, away_team_score |-> as]

\* odds_table(**row) with its game_id; of the betting columns the spread stands
\* for the scraped line.
OddsRecord(g, spread, game_id) ==
    [home_team |-> g[1], away_team |-> g[2], start_time |-> g[3],
     spread |-> spread, game_id |-> game_id]

\* A row as predict_all hands it to insert_new_predictions.
Rows ==
    {[home_team |-> g[1], away_team |-> g[2], start_time |-> g[3],
      line |-> Some(l), prediction |-> Some(p)] :
        g \in GameIds, l \in RowLines, p \in RowPredictions}

Batches == UNION {[1..n -> Rows] : n \in 0..MaxBatch}

\* pred_tbl(**row): the columns the row does not name are NULL.
pred_tbl(row) ==
    [home_team |-> row.home_team, away_team |-> row.away_team, start_time |-> row.start_time,
     line |-> row.line, prediction |-> row.prediction,
     home_team_score |-> None, away_team_score |-> None, bet_result |-> None,
     game_id |-> None, odds_id |-> None]

\* update_odds_id: each row object gets the id of the odds record of its game.
update_odds_id(row_objects) ==
    [i \in DOMAIN row_objects |->
        LET hit == {k \in DOMAIN odds : Identity(odds[k]) = Identity(row_objects[i])}
        IN  IF hit = {} THEN row_objects[i]
            ELSE [row_objects[i] EXCEPT !.odds_id = Some(CHOOSE k \in hit : TRUE)]]

\* update_schedule_attributes: each row object gets the id and the scores of the
\* schedule record of its game, as they stand when the row is staged.
update_schedule_attributes(row_objects) ==
    [i \in DOMAIN row_objects |->
        LET hit == {s \in sched : Identity(s) = Identity(row_objects[i])}
        IN  IF hit = {} THEN row_objects[i]
            ELSE LET game == CHOOSE s \in hit : TRUE
                 IN  [row_objects[i] EXCEPT !.game_id = Some(game.id),
                                            !.home_team_score = game.home_team_score,
                                            !.away_team_score = game.away_team_score]]

----------------------------------------------------------------------------
(* predict/bets.py *)

\* The loop body with the two WIN tests placed before the PUSH test.
BetResult_PushLast(row) ==
    LET score_margin == 2 * (row.home_team_score[1] - row.away_team_score[1])
        line_inverse == row.line[1] * (-1)
        prediction == row.prediction[1]
    IN  IF (score_margin <= line_inverse) /\ (prediction < line_inverse) THEN "WIN"
        ELSE IF (score_margin >= line_inverse) /\ (prediction > line_inverse) THEN "WIN"
        ELSE IF score_margin = line_inverse THEN "PUSH"
        ELSE "LOSS"

\* The loop body with the prediction compared by <= and >=.
BetResult_NotStrict(row) ==
    LET score_margin == 2 * (row.home_team_score[1] - row.away_team_score[1])
        line_inverse == row.line[1] * (-1)
        prediction == row.prediction[1]
    IN  IF score_margin = line_inverse THEN "PUSH"
        ELSE IF (score_margin < line_inverse) /\ (prediction <= line_inverse) THEN "WIN"
        ELSE IF (score_margin > line_inverse) /\ (prediction >= line_inverse) THEN "WIN"
        ELSE "LOSS"

\* update_bet_results, the body of its loop: the result of one row.
BetResult(row) ==
    LET score_margin == 2 * (row.home_team_score[1] - row.away_team_score[1])
        line_inverse == row.line[1] * (-1)
        prediction == row.prediction[1]
    IN  IF score_margin = line_inverse THEN "PUSH"
        ELSE IF (score_margin < line_inverse) /\ (prediction < line_inverse) THEN "WIN"
        ELSE IF (score_margin > line_inverse) /\ (prediction > line_inverse) THEN "WIN"
        ELSE "LOSS"

\* The row on which the loop of update_bet_results raises TypeError: an operand
\* of its arithmetic or of a comparison it evaluates is None.
BetResultRaises(row) ==
    \/ row.home_team_score = None
    \/ row.away_team_score = None
    \/ row.line = None
    \/ /\ row.prediction = None
       /\ 2 * (row.home_team_score[1] - row.away_team_score[1]) # row.line[1] * (-1)

\* update_bet_results on the rows `ids` of table `tbl`: the table after the loop.
update_bet_results(tbl, ids) ==
    [i \in DOMAIN tbl |->
        IF i \in ids THEN [tbl[i] EXCEPT !.bet_result = Some(BetResult(tbl[i]))] ELSE tbl[i]]

update_bet_results_raises(tbl, ids) == \E i \in ids : BetResultRaises(tbl[i])

\* update_prediction_table, its first query: the rows with a score of 0.
ScoreUpdateQuery(tbl) ==
    {i \in DOMAIN tbl : IsZero(tbl[i].home_team_score) \/ IsZero(tbl[i].away_team_score)}

\* The same query without the bet_result filter.
BetUpdateQuery_NoNullFilter(tbl) ==
    {i \in DOMAIN tbl : IsPositive(tbl[i].home_team_score)}

\* update_prediction_table, its second query: the ungraded rows with a home score.
BetUpdateQuery(tbl) ==
    {i \in DOMAIN tbl : tbl[i].bet_result = None /\ IsPositive(tbl[i].home_team_score)}

\* insert_new_predictions, its loop: the row objects of the rows whose identity
\* the query did not return.
NewRowObjects(rows, tbl) ==
    LET existing_predictions == {Identity(tbl[i]) : i \in DOMAIN tbl}
        kept == SelectSeq(rows, LAMBDA row : Identity(row) \notin existing_predictions)
    IN  [i \in DOMAIN kept |-> pred_tbl(kept[i])]

\* The predictions table refuses a second row of a Game Identity.
PredictionsConflict(tbl, new) == HasDuplicate(tbl \o new)

\* insert_new_predictions(rows, ...), predict_all line 397.  The session's query
\* sees what is stored and what is staged.
insert_new_predictions(rows) ==
    /\ pc = "idle"
    /\ LET row_objects == NewRowObjects(rows, predictions \o staged)
       IN  staged' = IF Len(row_objects) > 0
                     THEN staged \o update_schedule_attributes(update_odds_id(row_objects))
                     ELSE staged
    /\ bet_update_objs' = {}
    /\ pc' = "inserted"
    /\ UNCHANGED <<sched, odds, predictions, error, odds_session, scraper>>

\* session.commit(), predict_all line 399: nothing catches its IntegrityError.
commit_predictions ==
    /\ pc = "inserted"
    /\ IF PredictionsConflict(predictions, staged)
       THEN /\ pc' = "failed"
            /\ error' = "IntegrityError"
            /\ staged' = <<>>
            /\ UNCHANGED predictions
       ELSE /\ pc' = "committed"
            /\ predictions' = predictions \o staged
            /\ staged' = <<>>
            /\ UNCHANGED error
    /\ UNCHANGED <<sched, odds, bet_update_objs, odds_session, scraper>>

\* update_prediction_table, predict_all line 401.  The rows of the first query
\* are added back to the session as they are.
update_prediction_table ==
    /\ pc = "committed"
    /\ LET score_update_objs == ScoreUpdateQuery(predictions)
           bet_update == BetUpdateQuery(predictions)
       IN  /\ bet_update_objs' = bet_update
           /\ IF update_bet_results_raises(predictions, bet_update)
              THEN /\ pc' = "failed"
                   /\ error' = "TypeError"
                   /\ UNCHANGED predictions
              ELSE /\ pc' = "updated"
                   /\ predictions' = update_bet_results(predictions, bet_update)
                   /\ UNCHANGED error
    /\ UNCHANGED <<sched, odds, staged, odds_session, scraper>>

\* run_all: session.commit() and session.close() after predict_all returns.
run_all_commit ==
    /\ pc = "updated"
    /\ pc' = "idle"
    /\ UNCHANGED <<sched, odds, pred_session, odds_session, scraper, error>>

\* The scheduler's next job after one that raised: run_all opens a new session.
run_all_again ==
    /\ pc = "failed"
    /\ pc' = "idle"
    /\ error' = ""
    /\ UNCHANGED <<sched, odds, pred_session, odds_session, scraper>>

\* The schedule scraper posts scores of a game between two runs of predict_all.
ScheduleUpdate(i, hs, as) ==
    /\ pc = "idle"
    /\ \E s \in sched :
          /\ s.id = i
          /\ <<s.home_team_score, s.away_team_score>> # <<hs, as>>
          /\ sched' = (sched \ {s}) \cup {ScheduleRecord(i, Game(i), hs, as)}
    /\ UNCHANGED <<odds, pred_session, odds_session, scraper, pc, error>>

Init ==
    /\ sched = {ScheduleRecord(i, Game(i), None, None) : i \in 1..NumGames}
    /\ odds = [i \in 1..NumGames |-> OddsRecord(Game(i), Some(-2), Some(i))]
    /\ odds_deleted = <<>>
    /\ odds_new = <<>>
    /\ odds_rows = <<>>
    /\ NoScrape
    /\ predictions = <<>>
    /\ staged = <<>>
    /\ bet_update_objs = {}
    /\ pc = "idle"
    /\ error = ""

Next ==
    \/ \E rows \in Batches : insert_new_predictions(rows)
    \/ commit_predictions
    \/ update_prediction_table
    \/ run_all_commit
    \/ run_all_again
    \/ \E i \in 1..NumGames, hs \in ScoreVals, as \in ScoreVals : ScheduleUpdate(i, hs, as)

Spec == Init /\ [][Next]_vars

----------------------------------------------------------------------------
(* update_bet_results on its own: one row with both scores, a line and a   *)
(* prediction, whatever they are.                                          *)

GradeRows ==
    {[home_team |-> Game(1)[1], away_team |-> Game(1)[2], start_time |-> Game(1)[3],
      line |-> Some(l), prediction |-> Some(p),
      home_team_score |-> Some(hs), away_team_score |-> Some(as), bet_result |-> None,
      game_id |-> Some(1), odds_id |-> Some(1)] :
        l \in -MaxLine..MaxLine, p \in -(MaxLine + 1)..(MaxLine + 1),
        hs \in 0..MaxScore, as \in 0..MaxScore}

update_bet_results_call ==
    /\ pc = "grade"
    /\ ~update_bet_results_raises(predictions, DOMAIN predictions)
    /\ predictions' = update_bet_results(predictions, DOMAIN predictions)
    /\ bet_update_objs' = DOMAIN predictions
    /\ pc' = "graded"
    /\ UNCHANGED <<sched, odds, staged, error, odds_session, scraper>>

InitGrade ==
    /\ sched = {}
    /\ odds = <<>>
    /\ odds_deleted = <<>>
    /\ odds_new = <<>>
    /\ odds_rows = <<>>
    /\ NoScrape
    /\ predictions \in {<<row>> : row \in GradeRows}
    /\ staged = <<>>
    /\ bet_update_objs = {}
    /\ pc = "grade"
    /\ error = ""

NextGrade == update_bet_results_call

SpecGrade == InitGrade /\ [][NextGrade]_vars

----------------------------------------------------------------------------
(* scrapers/line_scraper.py: update_odds_table and the commit that follows *)

\* The spreads a scrape brings, in half points.
SpreadVals == {Some(-9), Some(3)}

\* A row of line_data.dict_to_rows(): a game of the schedule, or one the
\* schedule has never heard of.
OddsRows ==
    {[home_team |-> g[1], away_team |-> g[2], start_time |-> g[3], spread |-> sp] :
        g \in GameIds \cup {Game(NumGames + 1)}, sp \in SpreadVals}

OddsBatches == UNION {[1..n -> OddsRows] : n \in 0..MaxBatch}

\* The schedules update_odds_table may meet: a game may be missing from the
\* schedule, and the first game may be there twice.
ScheduleCandidates ==
    {ScheduleRecord(i, Game(i), None, None) : i \in 1..NumGames}
        \cup {ScheduleRecord(NumGames + 1, Game(1), None, None)}

\* The loop's second query: the schedule records of the row's game.
GameQuery(row) == {s \in sched : Identity(s) = Identity(row)}

\* The first row at which the loop raises, 0 when it runs to its end: game[0] of
\* an empty result is an IndexError, two matches are the Exception of line 225.
RECURSIVE FirstRaise(_, _)
FirstRaise(batch, k) ==
    IF k > Len(batch) THEN 0
    ELSE IF Cardinality(GameQuery(batch[k])) # 1 THEN k
    ELSE FirstRaise(batch, k + 1)

\* The loop's first query finding nothing.
ExistingRows_None(tbl, batch) == <<>>

\* The loop's first query, over the batch: the stored rows of the batch's games,
\* each of which the loop deletes.
ExistingRows(tbl, batch) ==
    LET scraped == {Identity(batch[k]) : k \in DOMAIN batch}
    IN  SelectSeq(tbl, LAMBDA exist_row : Identity(exist_row) \in scraped)

\* The table without the rows the session deleted.
Without(tbl, deleted) ==
    SelectSeq(tbl, LAMBDA r : \A k \in DOMAIN deleted : deleted[k] # r)

\* The row objects of the loop, each with the id of its schedule record.
OddsRowObjects(batch) ==
    [k \in DOMAIN batch |->
        OddsRecord(Identity(batch[k]), batch[k].spread,
                   Some((CHOOSE game \in GameQuery(batch[k]) : TRUE).id))]

\* UniqueConstraint(home_team, away_team, start_time) of create_odds_table.
OddsConflict(tbl, new) == HasDuplicate(tbl \o new)

\* update_odds_table(odds_table, sched_tbl, rows, session).  An exception of the
\* loop leaves the function before session.add_all, and nothing catches it.
update_odds_table(batch) ==
    /\ pc \in {"idle", "odds_committed"}
    /\ odds_rows' = batch
    /\ IF Len(batch) = 0
       THEN /\ pc' = "scraped"
            /\ odds_deleted' = <<>>
            /\ odds_new' = <<>>
            /\ UNCHANGED error
       ELSE IF FirstRaise(batch, 1) # 0
       THEN /\ pc' = "failed"
            /\ error' = IF GameQuery(batch[FirstRaise(batch, 1)]) = {}
                        THEN "IndexError" ELSE "Exception"
            /\ odds_deleted' = <<>>
            /\ odds_new' = <<>>
       ELSE /\ pc' = "scraped"
            /\ odds_deleted' = ExistingRows(odds, batch)
            /\ odds_new' = OddsRowObjects(batch)
            /\ UNCHANGED error
    /\ UNCHANGED <<sched, odds, pred_session, scraper>>

\* run_all: session.commit() after scraper.scrape_all.  A refused INSERT rolls
\* the transaction back, deletes included, and the IntegrityError ends the run.
commit_odds ==
    /\ pc = "scraped"
    /\ IF OddsConflict(Without(odds, odds_deleted), odds_new)
       THEN /\ pc' = "failed"
            /\ error' = "IntegrityError"
            /\ UNCHANGED odds
       ELSE /\ pc' = "odds_committed"
            /\ odds' = Without(odds, odds_deleted) \o odds_new
            /\ UNCHANGED error
    /\ odds_new' = <<>>
    /\ UNCHANGED <<sched, odds_rows, odds_deleted, pred_session, scraper>>

InitOdds ==
    /\ sched \in SUBSET ScheduleCandidates
    /\ odds = <<>>
    /\ odds_deleted = <<>>
    /\ odds_new = <<>>
    /\ odds_rows = <<>>
    /\ NoScrape
    /\ predictions = <<>>
    /\ staged = <<>>
    /\ bet_update_objs = {}
    /\ pc = "idle"
    /\ error = ""

NextOdds ==
    \/ \E batch \in OddsBatches : update_odds_table(batch)
    \/ commit_odds
    \/ run_all_again

SpecOdds == InitOdds /\ [][NextOdds]_vars

----------------------------------------------------------------------------
(* scrapers/line_scraper.py: the parsers *)

\* The empty string a parser starts its fields with, apart from every number.
EmptyStr == <<"str", "">>

\* str.upper() on the team names of the feed.
Upper(name) ==
    CASE name = "Lakers" -> "LAKERS"
      [] name = "Celtics" -> "CELTICS"
      [] OTHER -> name

Max(S) == CHOOSE x \in S : \A y \in S : y <= x

\* What a call returned or raised.
Returned(kind, teams, lines) == [kind |-> kind, teams |-> teams, lines |-> lines, error |-> ""]
Raised(exception) == [kind |-> "raise", teams |-> <<>>, lines |-> <<>>, error |-> exception]

\* parse_teams with its last test read as written: (home_team != "") or (away_team == "").
parse_teams(comps) ==
    IF Len(comps) > 2 THEN Raised("Exception")
    ELSE
        LET homes == {k \in DOMAIN comps : comps[k].home}
            aways == {k \in DOMAIN comps : ~comps[k].home}
            home_team == IF homes = {} THEN "" ELSE comps[Max(homes)].name
            away_team == IF aways = {} THEN "" ELSE comps[Max(aways)].name
        IN  IF (~(home_team = "")) \/ (away_team = "")
            THEN Returned("teams", <<Upper(home_team), Upper(away_team)>>, <<>>)
            ELSE Raised("Exception")

\* int(price) of an American price: the prices of the feed that int() reads.
IntOf(price) ==
    CASE price = "-200" -> -200
      [] price = "+180" -> 180
      [] price = "-110" -> -110
      [] price = "-105" -> -105

IntParses(price) == price \in {"-200", "+180", "-110", "-105"}

\* float(handicap), in half points.
FloatOf(handicap) ==
    CASE handicap = "-4.5" -> -9
      [] handicap = "2.0" -> 4

FloatParses(handicap) == handicap \in {"-4.5", "2.0"}

LastOfType(outcomes, type) ==
    LET hit == {k \in DOMAIN outcomes : outcomes[k].type = type}
    IN  IF hit = {} THEN 0 ELSE Max(hit)

\* parse_moneyline: [error, home_moneyline, away_moneyline].  A price that is
\* neither "EVEN" nor a number makes int() raise ValueError inside the loop.
parse_moneyline(moneyline_bet) ==
    LET outcomes == moneyline_bet.outcomes
        Price(o) == IF o.american = "EVEN" THEN Some(100) ELSE Some(IntOf(o.american))
        h == LastOfType(outcomes, "H")
        a == LastOfType(outcomes, "A")
        home_moneyline == IF h = 0 THEN EmptyStr ELSE Price(outcomes[h])
        away_moneyline == IF a = 0 THEN EmptyStr ELSE Price(outcomes[a])
    IN  IF Len(outcomes) > 2
        THEN [error |-> "Exception", home_moneyline |-> EmptyStr, away_moneyline |-> EmptyStr]
        ELSE IF \E k \in DOMAIN outcomes :
                    outcomes[k].american # "EVEN" /\ ~IntParses(outcomes[k].american)
        THEN [error |-> "ValueError", home_moneyline |-> EmptyStr, away_moneyline |-> EmptyStr]
        ELSE IF (~(home_moneyline = EmptyStr)) \/ (away_moneyline = EmptyStr)
        THEN [error |-> "", home_moneyline |-> home_moneyline, away_moneyline |-> away_moneyline]
        ELSE [error |-> "Exception", home_moneyline |-> EmptyStr, away_moneyline |-> EmptyStr]

\* parse_spread: [error, spread, home_spread_price, away_spread_price].
parse_spread(spread_bet) ==
    LET outcomes == spread_bet.outcomes
        h == LastOfType(outcomes, "H")
        a == LastOfType(outcomes, "A")
        spread == IF h = 0 THEN EmptyStr ELSE Some(FloatOf(outcomes[h].handicap))
        home_spread_price == IF h = 0 THEN EmptyStr ELSE Some(IntOf(outcomes[h].american))
        away_spread_price == IF a = 0 THEN EmptyStr ELSE Some(IntOf(outcomes[a].american))
        failed == [error |-> "Exception", spread |-> EmptyStr,
                   home_spread_price |-> EmptyStr, away_spread_price |-> EmptyStr]
    IN  IF Len(outcomes) > 2 THEN failed
        ELSE IF \E k \in DOMAIN outcomes :
                    \/ outcomes[k].type = "H" /\ ~FloatParses(outcomes[k].handicap)
                    \/ outcomes[k].type \in {"H", "A"} /\ ~IntParses(outcomes[k].american)
        THEN [failed EXCEPT !.error = "ValueError"]
        ELSE IF (~(spread = EmptyStr)) \/ (home_spread_price = EmptyStr)
                    \/ (away_spread_price = EmptyStr)
        THEN [error |-> "", spread |-> spread, home_spread_price |-> home_spread_price,
              away_spread_price |-> away_spread_price]
        ELSE failed

----------------------------------------------------------------------------
(* scrapers/line_scraper.py: odds_for_today *)

\* scrape_time = datetime.now(), read once before the requests.
scrape_time == 2

\* datetime.now() as the loop reads it again for each game (line 65): no earlier
\* than scrape_time and never going back.  nows[k] is the reading for game k.
Clocks ==
    {nows \in [1..MaxEvents -> {scrape_time, scrape_time + 2}] :
        \A j, k \in 1..MaxEvents : j <= k => nows[j] <= nows[k]}

\* bovada_json_request: an empty answer is None.
bovada_json_request(response) == IF ~(Len(response) > 0) THEN None ELSE response

\* The keys of the lines dictionary, in their order.
LineKeys ==
    <<"home_team", "away_team", "start_time", "spread", "home_spread_price",
      "away_spread_price", "home_moneyline", "away_moneyline", "scrape_time">>

EmptyLines == [key \in {LineKeys[k] : k \in DOMAIN LineKeys} |-> <<>>]

\* for key in lines: lines[key].append(game_lines[i]); i += 1
AppendGame(lines, game_lines) ==
    [key \in DOMAIN lines |->
        Append(lines[key], game_lines[CHOOSE k \in DOMAIN LineKeys : LineKeys[k] = key])]

\* `== ""` turned into None.
Blank(v) == IF v = EmptyStr THEN None ELSE v

\* The local variables the loop over the full-match bets assigns.  The three
\* spread variables are bound by the first Point Spread bet of the scrape and
\* keep their values from one game to the next.
BetStep(st, bet) ==
    IF bet.description = "Moneyline"
    THEN LET parsed == parse_moneyline(bet)
         IN  IF parsed.error # "" THEN [st EXCEPT !.error = parsed.error]
             ELSE [st EXCEPT !.home_moneyline = Blank(parsed.home_moneyline),
                             !.away_moneyline = Blank(parsed.away_moneyline),
                             !.money_lines = TRUE]
    ELSE IF bet.description = "Point Spread"
    THEN LET parsed == parse_spread(bet)
         IN  IF parsed.error # "" THEN [st EXCEPT !.error = parsed.error]
             ELSE [st EXCEPT !.spread = Blank(parsed.spread),
                             !.home_spread_price = Blank(parsed.home_spread_price),
                             !.away_spread_price = Blank(parsed.away_spread_price),
                             !.spread_bound = TRUE]
    ELSE st

RECURSIVE BetsLoop(_, _, _)
BetsLoop(bets, k, st) ==
    IF k > Len(bets) \/ st.error # "" THEN st
    ELSE BetsLoop(bets, k + 1, BetStep(st, bets[k]))

\* The start time in the last segment of the link.
StartTime(game) == game.link[Len(game.link)]

\* The loop over bovada_games from game k on; st holds the local variables.
RECURSIVE GamesLoop(_, _, _, _, _)
GamesLoop(games, k, st, lines, nows) ==
    IF k > Len(games) THEN Returned("lines", <<>>, lines)
    ELSE
        LET game == games[k]
            start_time == StartTime(game)
        IN  IF nows[k] > start_time THEN GamesLoop(games, k + 1, st, lines, nows)
            ELSE
                LET teams == parse_teams(game.competitors)
                    full_match_bets == SelectSeq(game.markets, LAMBDA bet : bet.period = "Match")
                    after == BetsLoop(full_match_bets, 1, [st EXCEPT !.money_lines = FALSE])
                    bets == IF after.money_lines THEN after
                            ELSE [after EXCEPT !.home_moneyline = None, !.away_moneyline = None]
                    game_lines ==
                        <<teams.teams[1], teams.teams[2], start_time, bets.spread,
                          bets.home_spread_price, bets.away_spread_price,
                          bets.home_moneyline, bets.away_moneyline, scrape_time>>
                IN  IF teams.kind = "raise" THEN Raised(teams.error)
                    ELSE IF after.error # "" THEN Raised(after.error)
                    ELSE IF ~bets.spread_bound THEN Raised("UnboundLocalError")
                    ELSE GamesLoop(games, k + 1, bets, AppendGame(lines, game_lines), nows)

\* The local variables before the first game.
NoLocals ==
    [money_lines |-> FALSE, home_moneyline |-> None, away_moneyline |-> None,
     spread_bound |-> FALSE, spread |-> None, home_spread_price |-> None,
     away_spread_price |-> None, error |-> ""]

\* The game events of a feed: '@' in the description and type GAMEEVENT.
BovadaGames(events) ==
    SelectSeq(events, LAMBDA e : e.at_count > 0 /\ e.type = "GAMEEVENT")

\* The URLs odds_for_today requests: the playoff URL only after an empty answer
\* of the regular one.
Requests(regular) ==
    IF bovada_json_request(regular) = None THEN <<"regularURL", "playoffURL">>
    ELSE <<"regularURL">>

\* odds_for_today: None, the lines, or the exception of a parser.
OddsForToday(regular, playoff, nows) ==
    LET first == bovada_json_request(regular)
        response == IF first = None THEN bovada_json_request(playoff) ELSE first
    IN  IF response = None THEN Returned("none", <<>>, <<>>)
        ELSE LET bovada_games == BovadaGames(response[1].events)
             IN  IF Len(bovada_games) = 0 THEN Returned("none", <<>>, <<>>)
                 ELSE GamesLoop(bovada_games, 1, NoLocals, EmptyLines, nows)

odds_for_today ==
    /\ pc = "feed"
    /\ requested' = Requests(feed_regular)
    /\ result' = OddsForToday(feed_regular, feed_playoff, clock)
    /\ pc' = "feed_done"
    /\ UNCHANGED <<sched, odds, pred_session, odds_session, feed_regular, feed_playoff,
                   clock, competitors, args, error>>

\* The feeds.
Outcome(type, american, handicap) == [type |-> type, american |-> american, handicap |-> handicap]

MoneylineMarket ==
    [description |-> "Moneyline", period |-> "Match",
     outcomes |-> <<Outcome("H", "-200", ""), Outcome("A", "+180", "")>>]

\* A Moneyline market whose away price is empty, and one with no away outcome.
MoneylineNoAwayPrice ==
    [description |-> "Moneyline", period |-> "Match",
     outcomes |-> <<Outcome("H", "-200", ""), Outcome("A", "", "")>>]

MoneylineNoAwayOutcome ==
    [description |-> "Moneyline", period |-> "Match",
     outcomes |-> <<Outcome("H", "-200", "")>>]

SpreadMarket(handicap) ==
    [description |-> "Point Spread", period |-> "Match",
     outcomes |-> <<Outcome("H", "-110", handicap), Outcome("A", "-105", "")>>]

GameEvent(home, away, start, markets) ==
    [at_count |-> 1, type |-> "GAMEEVENT", link |-> <<away, home, start>>,
     competitors |-> <<[name |-> home, home |-> TRUE], [name |-> away, home |-> FALSE]>>,
     markets |-> markets]

\* An event that is no game: a futures bet.
FuturesEvent ==
    [at_count |-> 0, type |-> "FUTURE", link |-> <<"nba", "championship", 3>>,
     competitors |-> <<>>, markets |-> <<>>]

FeedEvents ==
    {FuturesEvent}
        \cup {GameEvent("Lakers", "Celtics", start, <<MoneylineMarket, SpreadMarket("-4.5")>>) :
                start \in {1, 3}}
        \cup {GameEvent("Celtics", "Lakers", 3, <<SpreadMarket("2.0")>>)}
        \cup {GameEvent("Celtics", "Lakers", 3, <<MoneylineMarket>>)}
        \cup {GameEvent("Lakers", "Celtics", 3, <<moneyline, SpreadMarket("-4.5")>>) :
                moneyline \in {MoneylineNoAwayPrice, MoneylineNoAwayOutcome}}

\* What a URL answers: an empty list, or one group with its events.
Responses ==
    {<<>>} \cup {<<[events |-> events]>> :
                    events \in UNION {[1..n -> FeedEvents] : n \in 0..MaxEvents}}

InitFeed ==
    /\ sched = {}
    /\ odds = <<>>
    /\ predictions = <<>>
    /\ staged = <<>>
    /\ bet_update_objs = {}
    /\ odds_deleted = <<>>
    /\ odds_new = <<>>
    /\ odds_rows = <<>>
    /\ feed_regular \in Responses
    /\ feed_playoff \in Responses
    /\ clock \in Clocks
    /\ requested = <<>>
    /\ competitors = <<>>
    /\ args = <<>>
    /\ result = [kind |-> "none", teams |-> <<>>, lines |-> <<>>, error |-> ""]
    /\ pc = "feed"
    /\ error = ""

NextFeed == odds_for_today

SpecFeed == InitFeed /\ [][NextFeed]_vars

----------------------------------------------------------------------------
(* parse_teams on its own *)

TeamNames == {"Lakers", "Celtics"}

Competitors == {[name |-> n, home |-> h] : n \in TeamNames, h \in BOOLEAN}

parse_teams_call ==
    /\ pc = "teams"
    /\ result' = parse_teams(competitors)
    /\ pc' = "teams_done"
    /\ UNCHANGED <<sched, odds, pred_session, odds_session, feed_regular, feed_playoff,
                   clock, requested, competitors, args, error>>

InitTeams ==
    /\ sched = {}
    /\ odds = <<>>
    /\ predictions = <<>>
    /\ staged = <<>>
    /\ bet_update_objs = {}
    /\ odds_deleted = <<>>
    /\ odds_new = <<>>
    /\ odds_rows = <<>>
    /\ feed_regular = <<>>
    /\ feed_playoff = <<>>
    /\ clock = <<>>
    /\ requested = <<>>
    /\ competitors \in UNION {[1..n -> Competitors] : n \in 0..MaxCompetitors}
    /\ args = <<>>
    /\ result = [kind |-> "none", teams |-> <<>>, lines |-> <<>>, error |-> ""]
    /\ pc = "teams"
    /\ error = ""

NextTeams == parse_teams_call

SpecTeams == InitTeams /\ [][NextTeams]_vars

----------------------------------------------------------------------------
(* parse_moneyline and parse_spread on their own *)

\* The outcomes a market object may carry: a home, an away or a draw entry, its
\* American price a number, "EVEN" or empty, its handicap a number or empty.
Outcomes ==
    {Outcome(type, american, handicap) :
        type \in {"H", "A", "D"}, american \in {"-200", "EVEN", ""}, handicap \in {"-4.5", ""}}

Markets ==
    {[description |-> d, period |-> "Match", outcomes |-> o] :
        d \in {"Moneyline", "Point Spread"},
        o \in UNION {[1..n -> Outcomes] : n \in 0..MaxOutcomes}}

parse_moneyline_call ==
    /\ pc = "market"
    /\ args.description = "Moneyline"
    /\ result' = parse_moneyline(args)
    /\ pc' = "market_done"
    /\ UNCHANGED <<sched, odds, pred_session, odds_session, feed_regular, feed_playoff,
                   clock, requested, competitors, args, error>>

parse_spread_call ==
    /\ pc = "market"
    /\ args.description = "Point Spread"
    /\ result' = parse_spread(args)
    /\ pc' = "market_done"
    /\ UNCHANGED <<sched, odds, pred_session, odds_session, feed_regular, feed_playoff,
                   clock, requested, competitors, args, error>>

InitMarket ==
    /\ sched = {}
    /\ odds = <<>>
    /\ predictions = <<>>
    /\ staged = <<>>
    /\ bet_update_objs = {}
    /\ odds_deleted = <<>>
    /\ odds_new = <<>>
    /\ odds_rows = <<>>
    /\ feed_regular = <<>>
    /\ feed_playoff = <<>>
    /\ clock = <<>>
    /\ requested = <<>>
    /\ competitors = <<>>
    /\ args \in Markets
    /\ result = [kind |-> "none", teams |-> <<>>, lines |-> <<>>, error |-> ""]
    /\ pc = "market"
    /\ error = ""

NextMarket == parse_moneyline_call \/ parse_spread_call

SpecMarket == InitMarket /\ [][NextMarket]_vars

----------------------------------------------------------------------------
(* predict/bets.py: line_probability on its own *)

\* The standard normal distribution function at z = q / 4 for q = 0, 1, ...,
\* in millionths (0.5 is 500000); from z = 5 on it rounds to one.
NormTable ==
    <<500000, 598706, 691462, 773373, 841345, 894350, 933193, 959941, 977250, 987776,
      993790, 997020, 998650, 999423, 999767, 999912, 999968, 999989, 999997, 999999>>

Phi(q) ==
    IF q >= 0 THEN (IF q < Len(NormTable) THEN NormTable[q + 1] ELSE 1000000)
    ELSE 1000000 - (IF -q < Len(NormTable) THEN NormTable[(-q) + 1] ELSE 1000000)

\* stats.norm(loc, scale): cdf and sf at x.  loc, scale and x are in half
\* points, and the scales used divide 4 * (x - loc).
NormCdf(loc, scale, x) == Phi((4 * (x - loc)) \div scale)
NormSf(loc, scale, x) == 1000000 - NormCdf(loc, scale, x)

\* What line_probability returns: a (probability, tag) tuple, a bare float
\* (tag ""), or None.
Tuple(probability, tag) == [type |-> "tuple", probability |-> probability, tag |-> tag]
Float(probability) == [type |-> "float", probability |-> probability, tag |-> ""]
NoneType == [type |-> "NoneType", probability |-> 0, tag |-> ""]

\* line_probability without its last branch.
line_probability_NoEqualBranch(prediction, line, std) ==
    LET line_prediction == (-1) * line
    IN  IF prediction > line_prediction
        THEN Tuple(NormCdf(prediction, std, line_prediction), "cdf")
        ELSE IF prediction < line_prediction
        THEN Tuple(NormSf(prediction, std, line_prediction), "sf")
        ELSE NoneType

\* line_probability with >= in its first test.
line_probability_CdfOnEqual(prediction, line, std) ==
    LET line_prediction == (-1) * line
    IN  IF prediction >= line_prediction
        THEN Tuple(NormCdf(prediction, std, line_prediction), "cdf")
        ELSE Tuple(NormSf(prediction, std, line_prediction), "sf")

line_probability(prediction, line, std) ==
    LET line_prediction == (-1) * line
    IN  IF prediction > line_prediction
        THEN Tuple(NormCdf(prediction, std, line_prediction), "cdf")
        ELSE IF prediction < line_prediction
        THEN Tuple(NormSf(prediction, std, line_prediction), "sf")
        ELSE IF prediction = line_prediction
        THEN Float(500000)
        ELSE NoneType

\* Standard deviations of the residuals, in half points.
StdVals == {1, 2, 4}

ProbabilityArgs ==
    [prediction : -(MaxLine + 1)..(MaxLine + 1), line : -MaxLine..MaxLine, std : StdVals]

line_probability_call ==
    /\ pc = "probability"
    /\ result' = line_probability(args.prediction, args.line, args.std)
    /\ pc' = "probability_done"
    /\ UNCHANGED <<sched, odds, pred_session, odds_session, feed_regular, feed_playoff,
                   clock, requested, competitors, args, error>>

InitProbability ==
    /\ sched = {}
    /\ odds = <<>>
    /\ predictions = <<>>
    /\ staged = <<>>
    /\ bet_update_objs = {}
    /\ odds_deleted = <<>>
    /\ odds_new = <<>>
    /\ odds_rows = <<>>
    /\ feed_regular = <<>>
    /\ feed_playoff = <<>>
    /\ clock = <<>>
    /\ requested = <<>>
    /\ competitors = <<>>
    /\ args \in ProbabilityArgs
    /\ result = [kind |-> "none", teams |-> <<>>, lines |-> <<>>, error |-> ""]
    /\ pc = "probability"
    /\ error = ""

NextProbability == line_probability_call

SpecProbability == InitProbability /\ [][NextProbability]_vars

----------------------------------------------------------------------------
(* predict/bets.py: get_team_name on its own *)

\* Strings are sequences of letters here, so that lower() is computed.
Letters == {"a", "A", "b", "B"}

LowerLetter(c) ==
    CASE c = "A" -> "a"
      [] c = "B" -> "b"
      [] OTHER -> c

\* str.lower()
Lower(str) == [k \in DOMAIN str |-> LowerLetter(str[k])]

\* br_references.Team: the values of the enumeration of standard team names,
\* in the order of the enumeration.
Team == << <<"A", "b">>, <<"B", "a", "a">>, <<"B", "A">> >>

\* What get_team_name returns: a string, or None when the loop ends without a
\* match and the function falls off its end.
Str(value) == [type |-> "str", value |-> value]
ImplicitNone == [type |-> "NoneType", value |-> <<>>]

get_team_name(team) ==
    LET hit == {k \in DOMAIN Team : Lower(team) = Lower(Team[k])}
    IN  IF hit = {} THEN ImplicitNone
        ELSE Str(Team[CHOOSE k \in hit : \A j \in hit : k <= j])

TeamStrings == UNION {[1..n -> Letters] : n \in 0..MaxNameLen}

get_team_name_call ==
    /\ pc = "team_name"
    /\ result' = get_team_name(args)
    /\ pc' = "team_name_done"
    /\ UNCHANGED <<sched, odds, pred_session, odds_session, feed_regular, feed_playoff,
                   clock, requested, competitors, args, error>>

InitTeamName ==
    /\ sched = {}
    /\ odds = <<>>
    /\ predictions = <<>>
    /\ staged = <<>>
    /\ bet_update_objs = {}
    /\ odds_deleted = <<>>
    /\ odds_new = <<>>
    /\ odds_rows = <<>>
    /\ feed_regular = <<>>
    /\ feed_playoff = <<>>
    /\ clock = <<>>
    /\ requested = <<>>
    /\ competitors = <<>>
    /\ args \in TeamStrings
    /\ result = [kind |-> "none", teams |-> <<>>, lines |-> <<>>, error |-> ""]
    /\ pc = "team_name"
    /\ error = ""

NextTeamName == get_team_name_call

SpecTeamName == InitTeamName /\ [][NextTeamName]_vars

----------------------------------------------------------------------------
(* Claims *)

HasBothScores(r) == IsPositive(r.home_team_score) /\ IsPositive(r.away_team_score)

ScoreMargin(r) == 2 * (r.home_team_score[1] - r.away_team_score[1])

\* C1: a prediction record's bet_result is null unless both its home and its
\* away score are non-null and non-zero.
C1_GradedOnlyWithBothScores ==
    \A i \in DOMAIN predictions :
        predictions[i].bet_result # None => HasBothScores(predictions[i])

\* C2: once a record's bet_result is assigned, no step changes it, and no later
\* run of update_prediction_table hands the record to update_bet_results again.
C2_GradedOnce ==
    [][\A i \in DOMAIN predictions :
          predictions[i].bet_result # None =>
              /\ i \in DOMAIN predictions'
              /\ predictions'[i].bet_result = predictions[i].bet_result
              /\ (pc = "committed" => i \notin bet_update_objs')]_vars

\* A run of update_prediction_table has ended, and it passed over a record that an
\* earlier run had graded.
C2_Witness ==
    /\ pc = "updated"
    /\ \E i \in DOMAIN predictions :
          predictions[i].bet_result # None /\ i \notin bet_update_objs

\* C3: once update_odds_table has run on a batch and the session is committed,
\* every Game Identity of the batch has exactly one odds record, and it carries
\* the spread scraped for it; and a batch of distinct games, each with its
\* one schedule record, is always committed.
C3_OneOddsRecordPerGame ==
    /\ pc = "odds_committed" =>
          \A k \in DOMAIN odds_rows :
              LET hit == {i \in DOMAIN odds : Identity(odds[i]) = Identity(odds_rows[k])}
              IN  /\ Cardinality(hit) = 1
                  /\ \A i \in hit : odds[i].spread = odds_rows[k].spread
    /\ (pc = "failed" /\ error = "IntegrityError") => HasDuplicate(odds_rows)

\* A game stored with one spread has been scraped again with another one, the
\* stored row was deleted, and the session is committed.
C3_Witness ==
    /\ pc = "odds_committed"
    /\ \E d \in DOMAIN odds_deleted, i \in DOMAIN odds :
          /\ Identity(odds[i]) = Identity(odds_deleted[d])
          /\ odds[i].spread # odds_deleted[d].spread

\* C4: no two prediction records, staged or stored, share a Game Identity.
C4_OneRecordPerGame == ~HasDuplicate(predictions \o staged)

\* C5: a graded row whose score margin equals the negated line is a PUSH,
\* whatever its prediction.
C5_PushOnLine ==
    pc = "graded" =>
        \A i \in DOMAIN predictions :
            ScoreMargin(predictions[i]) = -predictions[i].line[1]
                => predictions[i].bet_result = Some("PUSH")

\* A row on the line whose prediction is off the line has been graded.
C5_Witness ==
    /\ pc = "graded"
    /\ \E i \in DOMAIN predictions :
          /\ ScoreMargin(predictions[i]) = -predictions[i].line[1]
          /\ predictions[i].prediction[1] > -predictions[i].line[1]
          /\ predictions[i].bet_result = Some("PUSH")

\* C6: a graded row whose score margin is off the negated line is a WIN exactly
\* when margin and prediction lie strictly on the same side of it, and a LOSS
\* otherwise; every graded row holds one of WIN, LOSS, PUSH.
C6_WinOnSameSide ==
    pc = "graded" =>
        \A i \in DOMAIN predictions :
            LET r == predictions[i]
                line_inverse == -r.line[1]
                same_side == \/ ScoreMargin(r) < line_inverse /\ r.prediction[1] < line_inverse
                             \/ ScoreMargin(r) > line_inverse /\ r.prediction[1] > line_inverse
            IN  /\ r.bet_result \in {Some("WIN"), Some("LOSS"), Some("PUSH")}
                /\ ScoreMargin(r) # line_inverse =>
                      /\ same_side => r.bet_result = Some("WIN")
                      /\ ~same_side => r.bet_result = Some("LOSS")

\* A row off the line whose prediction equals the negated line has been graded LOSS.
C6_Witness ==
    /\ pc = "graded"
    /\ \E i \in DOMAIN predictions :
          /\ ScoreMargin(predictions[i]) # -predictions[i].line[1]
          /\ predictions[i].prediction[1] = -predictions[i].line[1]
          /\ predictions[i].bet_result = Some("LOSS")

\* C7: when the commit of the staged predictions meets a uniqueness conflict,
\* the stored records stay as they are, the run goes on to
\* update_prediction_table, and no exception ends it.
C7_ConflictRecovered ==
    [][(pc = "inserted" /\ PredictionsConflict(predictions, staged)) =>
          (pc' = "committed" /\ predictions' = predictions /\ error' = "")]_vars

\* C8: a run of update_prediction_table copies the schedule's final scores into
\* every stored record that lacks a score.
C8_ScoresCopied ==
    [][pc = "committed" =>
          \A i \in DOMAIN predictions, s \in sched :
              (/\ Identity(s) = Identity(predictions[i])
               /\ ~HasBothScores(predictions[i])
               /\ HasBothScores(s))
                  => /\ i \in DOMAIN predictions'
                     /\ predictions'[i].home_team_score = s.home_team_score
                     /\ predictions'[i].away_team_score = s.away_team_score]_vars

\* C9: odds_for_today requests the playoff feed whenever the regular feed is
\* empty or holds no game event; it returns None only when neither feed holds a
\* game event; and when the regular feed has no game event, the records of the
\* result are games of the playoff feed.
C9_FallbackToPlayoffFeed ==
    pc = "feed_done" =>
        LET no_regular == Len(feed_regular) = 0 \/ Len(BovadaGames(feed_regular[1].events)) = 0
            no_playoff == Len(feed_playoff) = 0 \/ Len(BovadaGames(feed_playoff[1].events)) = 0
            games == BovadaGames(feed_playoff[1].events)
        IN  /\ no_regular => \E k \in DOMAIN requested : requested[k] = "playoffURL"
            /\ (result.kind = "none") => (no_regular /\ no_playoff)
            /\ (no_regular /\ ~no_playoff /\ result.kind = "lines") =>
                  \A j \in DOMAIN result.lines.start_time :
                      \E k \in DOMAIN games :
                          /\ result.lines.start_time[j] = StartTime(games[k])
                          /\ result.lines.home_team[j] = Upper(games[k].competitors[1].name)

\* C10: parse_teams returns a pair only when the competitors hold exactly one
\* home and one away competitor; otherwise it raises.
C10_TeamsNeedHomeAndAway ==
    pc = "teams_done" =>
        LET homes == {k \in DOMAIN competitors : competitors[k].home}
            aways == {k \in DOMAIN competitors : ~competitors[k].home}
        IN  IF Cardinality(homes) = 1 /\ Cardinality(aways) = 1
            THEN result.kind = "teams" /\ result.teams[1] # "" /\ result.teams[2] # ""
            ELSE result.kind = "raise"

\* C11: parse_moneyline and parse_spread raise for every malformed market: one
\* with more than two outcomes, and one that has no home and no away outcome,
\* from which no field can be extracted.
C11_MalformedMarketRaises ==
    pc = "market_done" =>
        LET outcomes == args.outcomes
        IN  (\/ Len(outcomes) > 2
             \/ \A k \in DOMAIN outcomes : outcomes[k].type \notin {"H", "A"})
                => result.error # ""

\* The game events of the answer odds_for_today's loop runs over, the games the
\* loop does not skip, and the place of game k's record in the columns.
FeedGames ==
    IF Len(feed_regular) > 0 THEN BovadaGames(feed_regular[1].events)
    ELSE IF Len(feed_playoff) > 0 THEN BovadaGames(feed_playoff[1].events)
    ELSE <<>>

Upcoming == {k \in DOMAIN FeedGames : ~(clock[k] > StartTime(FeedGames[k]))}

RecordOf(k) == Cardinality({i \in Upcoming : i <= k})

MarketsOf(game, description) ==
    SelectSeq(game.markets, LAMBDA bet : bet.period = "Match" /\ bet.description = description)

\* The price a market shows for one side: "" also when the side has no outcome.
SidePrice(bet, type) ==
    IF LastOfType(bet.outcomes, type) = 0 THEN ""
    ELSE bet.outcomes[LastOfType(bet.outcomes, type)].american

PriceValue(price) == IF price = "" THEN None ELSE Some(IntOf(price))

\* C12: a game without a Moneyline market gets null for both moneylines; a game
\* whose Moneyline market lacks the price of one side gets null for that side
\* and the parsed price for the other, and no parser raises.
C12_MoneylineFieldsOptional ==
    pc = "feed_done" =>
        \A k \in Upcoming :
            LET moneylines == MarketsOf(FeedGames[k], "Moneyline")
                j == RecordOf(k)
            IN  /\ (Len(moneylines) = 0 /\ result.kind = "lines") =>
                      /\ result.lines.home_moneyline[j] = None
                      /\ result.lines.away_moneyline[j] = None
                /\ (Len(moneylines) = 1) =>
                      LET home == SidePrice(moneylines[1], "H")
                          away == SidePrice(moneylines[1], "A")
                      IN  ((home = "") # (away = "")) =>
                              /\ result.error \notin {"ValueError", "Exception"}
                              /\ result.kind = "lines" =>
                                    /\ result.lines.home_moneyline[j] = PriceValue(home)
                                    /\ result.lines.away_moneyline[j] = PriceValue(away)

\* C13: line_probability returns exactly 0.5 whenever the prediction equals
\* the negated line, whatever the standard deviation.
C13_HalfOnEqual ==
    (pc = "probability_done" /\ args.prediction = -args.line) => result = Float(500000)

C13_Witness ==
    pc = "probability_done" /\ args.prediction = -args.line /\ args.prediction # 0 /\ args.std = 4

\* C14: when the prediction differs from line_prediction = -line the result of
\* line_probability is a (probability, tag) tuple with a probability between 0
\* and 1; the tag is "cdf" exactly when prediction > line_prediction and "sf"
\* exactly when prediction < line_prediction.
C14_TagFollowsComparison ==
    pc = "probability_done" =>
        LET line_prediction == -args.line
        IN  /\ (args.prediction # line_prediction) =>
                  /\ result.type = "tuple"
                  /\ result.probability \in 0..1000000
            /\ (result.tag = "cdf") <=> (args.prediction > line_prediction)
            /\ (result.tag = "sf") <=> (args.prediction < line_prediction)

C14_Witness ==
    /\ pc = "probability_done"
    /\ args.prediction < -args.line
    /\ result.type = "tuple" /\ result.tag = "sf"
    /\ result.probability > 0 /\ result.probability < 500000

\* The game events that start after the scrape instant.
FutureGames == SelectSeq(FeedGames, LAMBDA e : StartTime(e) > scrape_time)

\* C15: odds_for_today returns exactly one record for each game event that
\* starts after the scrape instant, in the order of the feed, and none that
\* starts before it; the nine columns have the same length.
C15_OnlyUpcomingGames ==
    (pc = "feed_done" /\ Len(FeedGames) > 0) =>
        /\ result.kind = "lines"
        /\ \A key \in DOMAIN result.lines : Len(result.lines[key]) = Len(FutureGames)
        /\ \A j \in DOMAIN result.lines.start_time :
              /\ ~(result.lines.start_time[j] < scrape_time)
              /\ result.lines.start_time[j] = StartTime(FutureGames[j])
              /\ result.lines.home_team[j] = Upper(FutureGames[j].competitors[1].name)

\* C16: when update_odds_table meets a row without a schedule record, the rows
\* of the batch that do have their one schedule record are staged all the same.
C16_BadRowIsolated ==
    (/\ pc \in {"scraped", "failed"}
     /\ error # "IntegrityError"
     /\ \E k \in DOMAIN odds_rows : GameQuery(odds_rows[k]) = {}) =>
        \A k \in DOMAIN odds_rows :
            Cardinality(GameQuery(odds_rows[k])) = 1 =>
                \E j \in DOMAIN odds_new : Identity(odds_new[j]) = Identity(odds_rows[k])

\* C17: get_team_name returns the standard name for every string that equals
\* one ignoring case, and for a string that equals none it returns no value:
\* neither a string nor None.
C17_TeamNameOrFailure ==
    pc = "team_name_done" =>
        /\ \A k \in DOMAIN Team : Lower(args) = Lower(Team[k]) => result = Str(Team[k])
        /\ (\A k \in DOMAIN Team : Lower(args) # Lower(Team[k])) =>
              result.type \notin {"str", "NoneType"}

\* C18: the spread fields of a record come from the Point Spread market of its
\* own game: the record of a game without one has null spread,
\* home_spread_price and away_spread_price.
C18_SpreadFromOwnGame ==
    pc = "feed_done" =>
        \A k \in Upcoming :
            (Len(MarketsOf(FeedGames[k], "Point Spread")) = 0 /\ result.kind = "lines") =>
                /\ result.lines.spread[RecordOf(k)] = None
                /\ result.lines.home_spread_price[RecordOf(k)] = None
                /\ result.lines.away_spread_price[RecordOf(k)] = None

====
